---- MODULE Spec2Model ----
(***************************************************************************)
(* coeur: the guarded action pipeline of src/src/coeur/service.py.         *)
(*                                                                         *)
(* A ServiceAction owns a registered method, an optional validator context *)
(* factory and a reference to a list of validators.  _WrappedMethod binds  *)
(* an action to a caller and offers the override scopes using(), only()    *)
(* and excluding().  ServiceAction.run is modelled statement by statement, *)
(* so that every read of the action's fields is a step of its own.         *)
(***************************************************************************)
EXTENDS Integers, Sequences, FiniteSets, TLC

(* ------------------------------ bounds -------------------------------- *)

\* validate() is not called on a list that already has this many validators
MaxLen == 3
\* the same, in a test that opens override scopes
MaxScopeLen == 2
\* list objects alive at the same time
MaxLists == 4
\* override scopes one thread nests
MaxNest == 2

(* --------------------------- the Python values ------------------------ *)

None == "None"

Threads == {"t1", "t2"}
Actions == {"A1", "A2"}

\* the functions a program registers as the action's method / context factory
Methods == {"m1", "m2"}
Factories == {"f1", "f2"}

\* va: a plain function; vb: a method bound to the service instance s1
Validators == {"va", "vb"}

\* a second plain function that is named like va
Namesake == "vc"

\* validator.__name__
NameOf(v) == IF v = "vb" THEN "b" ELSE "a"

\* the name lists given to only() and excluding(); no validator is named "zz"
NameLists == {{"a"}, {"zz"}, {"a", "b"}}

\* the lists built for using(): using([]), using([service.validate_b])
UsingLists == {<<>>, <<"vb">>}

\* whether the validator is a bound method, that is, has a __self__
HasReceiver(v) == v = "vb"

\* getattr(validator, "__self__", None)
SelfOf(v) == IF HasReceiver(v) THEN "s1" ELSE None

\* the callers of an invocation: the service instance s1, another instance
\* s2, an object s3 of another kind, and None (the action read through the
\* class: ServiceAction.__get__ with obj = None)
Callers == {"s1", "s2", "s3", None}

\* x == y in Python: identity for plain objects and None; s1 and s2 are
\* instances of a value class (a dataclass) with equal fields.
PyEq(x, y) == x = y \/ ({x, y} = {"s1", "s2"})

Invocation(caller, args, kwargs) ==
    [caller |-> caller, args |-> args, kwargs |-> kwargs]

\* the invocations of the model: a caller, positional and keyword arguments
Invocations == {Invocation("s1", <<"x">>, {<<"data", "d">>}),
                Invocation("s2", <<>>, {}),
                Invocation("s3", <<>>, {}),
                Invocation(None, <<"x">>, {})}

\* what a context factory may return; "empty" is an empty dict
ContextValues == {"ctx1", "empty"}

\* bool(x)
Truthy(x) == x \notin {None, "empty"}

MethodResults == {"r1"}

ListIds == 1..MaxLists

(* --------------------------- outcomes of calls ------------------------ *)

Return(v) == [status |-> "return", value |-> v]
Raise(type, what) == [status |-> "raise", value |-> <<type, what>>]

MethodNotSet == Raise("ValueError", "Method not set for action")
MethodAlreadySet == Raise("ValueError", "Method already set for action")
FactoryAlreadySet ==
    Raise("ValueError", "Validator context factory already set for action")

\* what the opaque callables may do when called
ValidatorOutcomes(v) == {Return("vret"), Raise("ServiceValidationError", v)}
FactoryOutcomes(f) ==
    {Return(c) : c \in ContextValues} \cup {Raise("FactoryError", f)}
MethodOutcomes(m) ==
    {Return(r) : r \in MethodResults} \cup {Raise("DomainError", m)}

(* ------------------------------- state -------------------------------- *)

VARIABLES
    registered_method,          \* [Actions -> Methods \cup {None}]
    validator_context_factory,  \* [Actions -> Factories \cup {None}]
    validators,                 \* [Actions -> ListIds]: a reference to a list
    lists,                      \* the heap: [ListIds -> Seq(Validators)]
    pc,                         \* [Threads -> position in run, or "idle"]
    frame,                      \* [Threads -> the locals of run]
    scopes,                     \* [Threads -> stack of open override scopes]
    guard,                      \* [Actions -> the permission fields of the action]
    calls,                      \* [Threads -> the calls its last operation made]
    outcome                     \* [Threads -> its last operation and result]

vars == <<registered_method, validator_context_factory, validators, lists,
          pc, frame, scopes, guard, calls, outcome>>

descriptor == <<registered_method, validator_context_factory, validators, guard>>

NoFrame == [action |-> None, caller |-> None, args |-> <<>>, kwargs |-> {},
            context |-> None, it_list |-> 0, it_idx |-> 0,
            permits |-> <<>>, p_idx |-> 0]

NoOutcome == [op |-> "none", action |-> None, input |-> None,
              status |-> "none", value |-> None]

Done(op, a, in, out) == [op |-> op, action |-> a, input |-> in,
                         status |-> out.status, value |-> out.value]

Pending(op, a, in) == [op |-> op, action |-> a, input |-> in,
                       status |-> "pending", value |-> None]

\* the list self.validators refers to
CurrentList(a) == lists[validators[a]]

\* the list objects something refers to: an action, the `existing` of an open
\* scope, or the iterator of a running for loop
Referenced(vals, scps, frms) ==
    {vals[a] : a \in Actions}
    \cup UNION {{scps[t][i].existing : i \in 1..Len(scps[t])} : t \in Threads}
    \cup {frms[t].it_list : t \in Threads}

\* a list nothing refers to is freed; its identity may be given to a new list
CollectEverything(ls, refs) == [l \in ListIds |-> <<>>]
Collect(ls, refs) == [l \in ListIds |-> IF l \in refs THEN ls[l] ELSE <<>>]

FreeIds == ListIds \ Referenced(validators, scopes, frame)

\* the identity of the next list object
NewId == CHOOSE l \in FreeIds : \A k \in FreeIds : l <= k

\* the validators option of the constructions the model starts from
OptionLists == {<<>>, <<"va", "vb">>}

\* the permission fields of an action: the function registered with
\* @action.permissions, the mandatory permission checks, and the option
\* use_service_permissions
Guard(resolver, checks, use) ==
    [resolver |-> resolver, checks |-> checks, use_service_permissions |-> use]

\* an action defined without permissions; the option is true unless given
Unguarded == Guard(None, <<>>, TRUE)

\* ServiceAction.__init__ for both actions, given the same options:
\* self.validators = validators or []
Build(m, f, opt, g) ==
        /\ registered_method = [a \in Actions |-> IF a = "A1" THEN m ELSE "m2"]
        /\ validator_context_factory = [a \in Actions |-> f]
        /\ validators = [a \in Actions |->
                            IF opt # <<>> THEN 1 ELSE IF a = "A1" THEN 1 ELSE 2]
        /\ lists = [l \in ListIds |-> IF l = 1 THEN opt ELSE <<>>]
        /\ pc = [t \in Threads |-> "idle"]
        /\ frame = [t \in Threads |-> NoFrame]
        /\ scopes = [t \in Threads |-> <<>>]
        /\ guard = [a \in Actions |-> g]
        /\ calls = [t \in Threads |-> <<>>]
        /\ outcome = [t \in Threads |-> NoOutcome]

Construct(m, f, opt) == Build(m, f, opt, Unguarded)

Init ==
    \E m \in {"m1", None}, f \in {"f1", None}, opt \in OptionLists :
        Construct(m, f, opt)

(* ----------------------- the registration API ------------------------- *)

Idle(t) == pc[t] = "idle"

\* an operation other than run: it makes no call to the program's callables
Finish(t, op, a, in, out) ==
    /\ outcome' = [outcome EXCEPT ![t] = Done(op, a, in, out)]
    /\ calls' = [calls EXCEPT ![t] = <<>>]
    /\ UNCHANGED <<pc, frame>>

\* register: `if self.registered_method: raise`
MethodNeverRegistered(a) == FALSE
MethodAlreadyRegistered(a) == registered_method[a] # None

\* ServiceAction.register(func); also the inner() of action(**options)
Register(t, a, func) ==
    /\ Idle(t)
    /\ IF MethodAlreadyRegistered(a)
       THEN /\ Finish(t, "register", a, func, MethodAlreadySet)
            /\ UNCHANGED registered_method
       ELSE /\ registered_method' = [registered_method EXCEPT ![a] = func]
            /\ Finish(t, "register", a, func, Return(func))
    /\ UNCHANGED <<validator_context_factory, validators, lists, scopes, guard>>

\* validate: self.validators.append(func)
AppendValidatorInFront(l, v) == <<v>> \o l
AppendValidator(l, v) == Append(l, v)

\* ServiceAction.validate(func)
Validate(t, a, func) ==
    /\ Idle(t)
    /\ Len(CurrentList(a)) < MaxLen
    /\ lists' = [lists EXCEPT ![validators[a]] = AppendValidator(@, func)]
    /\ Finish(t, "validate", a, func, Return(func))
    /\ UNCHANGED <<descriptor, scopes>>

\* validator_context: `if self.validator_context_factory: raise`
FactoryNeverSet(a) == FALSE
FactoryIsSet(a) == validator_context_factory[a] # None

\* ServiceAction.validator_context(func)
ValidatorContext(t, a, func) ==
    /\ Idle(t)
    /\ IF FactoryIsSet(a)
       THEN /\ Finish(t, "validator_context", a, func, FactoryAlreadySet)
            /\ UNCHANGED validator_context_factory
       ELSE /\ validator_context_factory' =
                    [validator_context_factory EXCEPT ![a] = func]
            /\ Finish(t, "validator_context", a, func, Return(func))
    /\ UNCHANGED <<registered_method, validators, lists, scopes, guard>>

(* -------------------------- the override scopes ----------------------- *)

\* a scope that is open: `existing` is the generator's local variable; the
\* other fields are history values: which context manager it is, the argument
\* it was given (a list for using, names for only and excluding), the
\* content of the action's list at scope entry, and its place in the order
\* in which the scopes that are open on the action were entered
Scope(kind, a, arg) ==
    [kind |-> kind, action |-> a, arg |-> arg,
     existing |-> validators[a], entry |-> CurrentList(a),
     order |-> 1 + Cardinality({<<t, i>> \in Threads \X (1..MaxLists) :
                                  /\ i <= Len(scopes[t])
                                  /\ scopes[t][i].action = a})]

CanEnter(t) == Idle(t)

Enter(t, kind, a, in) ==
    /\ scopes' = [scopes EXCEPT ![t] = Append(@, Scope(kind, a, in))]
    /\ Finish(t, kind, a, None, Return(None))
    /\ UNCHANGED <<registered_method, validator_context_factory, guard>>

\* the list comprehension of only(): a new list
OnlyFirstOfName(l, names) ==
    SelectSeq(l, LAMBDA v : NameOf(v) \in names /\ v = l[1])
OnlyFilter(l, names) == SelectSeq(l, LAMBDA v : NameOf(v) \in names)

\* the list comprehension of excluding(): a new list
ExcludingNothing(l, names) == l
ExcludingFilter(l, names) == SelectSeq(l, LAMBDA v : NameOf(v) \notin names)

\* a new list object with the given content
Allocate(content) ==
    /\ FreeIds # {}
    /\ lists' = [lists EXCEPT ![NewId] = content]

\* using: `self.validators = validators` installs the list it is given
UsingListAppended(existing, given) == existing \o given
UsingList(existing, given) == given

\* _WrappedMethod.using(validators) with a list the caller has just built
UsingFresh(t, a, content) ==
    /\ CanEnter(t)
    /\ Allocate(UsingList(CurrentList(a), content))
    /\ validators' = [validators EXCEPT ![a] = NewId]
    /\ Enter(t, "using", a, content)

\* _WrappedMethod.using(validators) with the list of an action, as in
\* service.my_action.using(service.other_action.validators)
UsingListOf(t, a, b) ==
    /\ CanEnter(t)
    /\ validators' = [validators EXCEPT ![a] = validators[b]]
    /\ Enter(t, "using", a, CurrentList(b))
    /\ UNCHANGED lists

\* _WrappedMethod.only(validators)
Only(t, a, names) ==
    /\ CanEnter(t)
    /\ Allocate(OnlyFilter(CurrentList(a), names))
    /\ validators' = [validators EXCEPT ![a] = NewId]
    /\ Enter(t, "only", a, names)

\* _WrappedMethod.excluding(validators)
Excluding(t, a, names) ==
    /\ CanEnter(t)
    /\ Allocate(ExcludingFilter(CurrentList(a), names))
    /\ validators' = [validators EXCEPT ![a] = NewId]
    /\ Enter(t, "excluding", a, names)

\* how the body of the with statement ends: it completes, or it raises an
\* Exception, or it raises a BaseException that is no Exception
\* (KeyboardInterrupt, SystemExit, GeneratorExit)
Exits == {"normal", "Exception", "BaseException"}

\* try: yield; self.validators = existing
\* except Exception: self.validators = existing; raise
Restores(how) == how \in {"normal", "Exception"}

\* leaving the innermost open scope of the thread
ExitScope(t, how) ==
    /\ Idle(t)
    /\ scopes[t] # <<>>
    /\ LET s == scopes[t][Len(scopes[t])]
       IN  /\ validators' = IF Restores(how)
                            THEN [validators EXCEPT ![s.action] = s.existing]
                            ELSE validators
           /\ Finish(t, "exit", s.action, [how |-> how, left |-> s],
                     IF how = "normal" THEN Return(None) ELSE Raise(how, "body"))
    /\ scopes' = [scopes EXCEPT ![t] = SubSeq(@, 1, Len(@) - 1)]
    /\ lists' = Collect(lists, Referenced(validators', scopes', frame))
    /\ UNCHANGED <<registered_method, validator_context_factory, guard>>

(* --------------------------- ServiceAction.run ------------------------ *)

\* one call of one of the program's callables, as the callee sees it
Call(kind, fn, pos, kw, out) ==
    [kind |-> kind, fn |-> fn, pos |-> pos, kw |-> kw, out |-> out]

Log(t, c) == calls' = [calls EXCEPT ![t] = Append(@, c)]

\* the invocation ends: its result or error goes to whoever called it
Leave(t, out) ==
    /\ outcome' = [outcome EXCEPT ![t] = [@ EXCEPT !.status = out.status,
                                                   !.value = out.value]]
    /\ pc' = [pc EXCEPT ![t] = "idle"]
    /\ frame' = [frame EXCEPT ![t] = NoFrame]
    /\ lists' = Collect(lists, Referenced(validators, scopes, frame'))

Goto(t, label) == pc' = [pc EXCEPT ![t] = label]

\* run: `if not self.registered_method: raise ValueError(...)`
MethodMissingNever(a) == FALSE
MethodMissing(a) == registered_method[a] = None

\* run is entered (through _WrappedMethod.__call__) and tests the method;
\* label is the position of its next statement
BeginAt(t, a, inv, label) ==
    /\ Idle(t)
    /\ calls' = [calls EXCEPT ![t] = <<>>]
    /\ IF MethodMissing(a)
       THEN /\ outcome' = [outcome EXCEPT ![t] =
                  Done("run", a, inv, MethodNotSet)]
            /\ UNCHANGED <<pc, frame>>
       ELSE /\ outcome' = [outcome EXCEPT ![t] =
                  Pending("run", a, inv)]
            /\ Goto(t, label)
            /\ frame' = [frame EXCEPT ![t] =
                  [NoFrame EXCEPT !.action = a, !.caller = inv.caller,
                                  !.args = inv.args, !.kwargs = inv.kwargs]]
    /\ UNCHANGED <<descriptor, lists, scopes>>

RunBegin(t, a, inv) == BeginAt(t, a, inv, "test")

\* run: `if self.validators:`
HasValidatorsAlways(a) == TRUE
HasValidators(a) == CurrentList(a) # <<>>

\* the test at the position at; the positions of the statement that follows
TestAt(t, at, then, else) ==
    /\ pc[t] = at
    /\ Goto(t, IF HasValidators(frame[t].action) THEN then ELSE else)
    /\ UNCHANGED <<descriptor, lists, frame, scopes, calls, outcome>>

RunTest(t) == TestAt(t, "test", "context", "method")

\* run has no try: an exception of the context factory leaves run
FactoryErrorSwallowed(out) == FALSE
FactoryFails(out) == out.status = "raise"

\* run: context = self.validator_context_factory(caller, *args, **kwargs)
\*               if self.validator_context_factory else None
\* at the position at, followed by the statement at the position then
ContextAt(t, at, then) ==
    /\ pc[t] = at
    /\ LET fr == frame[t]
           f == validator_context_factory[fr.action]
       IN  IF f = None
           THEN /\ frame' = [frame EXCEPT ![t].context = None]
                /\ Goto(t, then)
                /\ UNCHANGED <<calls, outcome, lists>>
           ELSE \E out \in FactoryOutcomes(f) :
                  /\ Log(t, Call("factory", f, <<fr.caller>> \o fr.args, fr.kwargs, out))
                  /\ IF FactoryFails(out)
                     THEN Leave(t, out)
                     ELSE /\ frame' = [frame EXCEPT ![t].context = out.value]
                          /\ Goto(t, then)
                          /\ UNCHANGED <<outcome, lists>>
    /\ UNCHANGED <<descriptor, scopes>>

RunContext(t) == ContextAt(t, "context", "iter")

\* run: self.validators is the attribute of the action, whoever the caller
ValidatorsAtConstruction(a) == 1
ReadValidators(a) == validators[a]

\* run: `for validator in self.validators:` takes an iterator of the list
RunIter(t) ==
    /\ pc[t] = "iter"
    /\ frame' = [frame EXCEPT ![t].it_list = ReadValidators(frame[t].action),
                              ![t].it_idx = 0]
    /\ Goto(t, "validate")
    /\ UNCHANGED <<descriptor, lists, scopes, calls, outcome>>

\* run: self_bound = getattr(validator, "__self__", None) == caller
SelfBound(v, caller) == PyEq(SelfOf(v), caller)

\* run: `if context: validator_args.insert(0, context)`
ContextPassed(a, context) == Truthy(context)

\* run: validator_args, built from list(args) by the two insert(0, ...)
ValidatorArgs(a, v, caller, context, args) ==
    (IF SelfBound(v, caller) THEN <<>> ELSE <<caller>>)
    \o (IF ContextPassed(a, context) THEN <<context>> ELSE <<>>)
    \o args

\* a validator that raises ends the invocation: nothing in run catches
ValidatorErrorIgnored(out) == FALSE
Propagates(out) == out.status = "raise"

\* run: the body of the for loop, for the iterator's next validator
RunValidator(t) ==
    /\ pc[t] = "validate"
    /\ LET fr == frame[t]
           l == lists[fr.it_list]
       IN  IF fr.it_idx >= Len(l)
           THEN /\ Goto(t, "method")
                /\ UNCHANGED <<frame, calls, outcome, lists>>
           ELSE LET v == l[fr.it_idx + 1]
                    pos == ValidatorArgs(fr.action, v, fr.caller, fr.context, fr.args)
                IN  \E out \in ValidatorOutcomes(v) :
                      /\ Log(t, Call("validator", v, pos, fr.kwargs, out))
                      /\ IF Propagates(out)
                         THEN Leave(t, out)
                         ELSE /\ frame' = [frame EXCEPT ![t].it_idx = @ + 1]
                              /\ UNCHANGED <<pc, outcome, lists>>
    /\ UNCHANGED <<descriptor, scopes>>

\* run: the arguments of self.registered_method(caller, *args, **kwargs)
MethodArgsWithContext(caller, context, args) ==
    <<caller>> \o (IF Truthy(context) THEN <<context>> ELSE <<>>) \o args
MethodArgs(caller, context, args) == <<caller>> \o args

\* run: `return self.registered_method(caller, *args, **kwargs)`
RunMethod(t) ==
    /\ pc[t] = "method"
    /\ LET fr == frame[t]
           m == registered_method[fr.action]
       IN  IF m = None
           THEN /\ Leave(t, Raise("TypeError", "'NoneType' object is not callable"))
                /\ UNCHANGED calls
           ELSE \E out \in MethodOutcomes(m) :
                  /\ Log(t, Call("method", m, MethodArgs(fr.caller, fr.context, fr.args),
                                 fr.kwargs, out))
                  /\ Leave(t, out)
    /\ UNCHANGED <<descriptor, scopes>>

(* --------------------------- the permissions -------------------------- *)
(* The permission steps of an invocation, as the specification gives them *)
(* (4.2, steps 2 to 4) and as tests/conftest.py uses them: the permission  *)
(* steps come after the context and before the validators.                *)

\* permission classes: instantiated, then check_permission(service, *args)
Permissions == {"pa", "pb", "pc"}

\* the functions registered with @action.permissions
Resolvers == {"rs"}

\* the mandatory permission checks of an action
CheckLists == {<<>>, <<"k1", "k2">>}

\* getattr(caller, "permissions", None): s1 and s2 are services that have
\* the class attribute, s3 and None have none
DefaultPermissions(caller) ==
    CASE caller = "s1" -> <<"pa", "pb">>
      [] caller = "s2" -> <<"pb">>
      [] OTHER -> None

\* what the opaque callables may do when called
ResolverOutcomes(r) == {Return(<<>>), Return(<<"pc", "pa">>)}
PermissionOutcomes(p) == {Return(None), Raise("PermissionError", p)}

\* an invocation of an action with permissions is entered
GuardedBegin(t, a, inv) == BeginAt(t, a, inv, "gtest")

\* step 1: the context, if any validators exist
GuardedTest(t) == TestAt(t, "gtest", "gcontext", "resolve")

GuardedContext(t) == ContextAt(t, "gcontext", "resolve")

\* step 2 without a resolver: the caller's default permission set if the
\* action uses it and the caller exposes one, else none
DefaultSetAlways(a, caller) ==
    IF DefaultPermissions(caller) # None THEN DefaultPermissions(caller) ELSE <<>>
DefaultSet(a, caller) ==
    IF guard[a].use_service_permissions /\ DefaultPermissions(caller) # None
    THEN DefaultPermissions(caller)
    ELSE <<>>

\* step 2: resolve the permission set
RunResolve(t) ==
    /\ pc[t] = "resolve"
    /\ LET fr == frame[t]
           r == guard[fr.action].resolver
       IN  IF r # None
           THEN \E out \in ResolverOutcomes(r) :
                  /\ Log(t, Call("resolver", r, <<fr.caller>> \o fr.args, fr.kwargs, out))
                  /\ frame' = [frame EXCEPT ![t].permits = out.value,
                                            ![t].p_idx = 0]
           ELSE /\ frame' = [frame EXCEPT ![t].permits = DefaultSet(fr.action, fr.caller),
                                          ![t].p_idx = 0]
                /\ UNCHANGED calls
    /\ Goto(t, "permission")
    /\ UNCHANGED <<descriptor, lists, scopes, outcome>>

\* a permission that fails ends the invocation
DeniedNever(out) == FALSE
Denied(out) == out.status = "raise"

\* the calls of the sequence ps of permissions or checks, one per step, from
\* the position at; the statement that follows is at the position then
CheckAt(t, at, kind, ps, then) ==
    /\ pc[t] = at
    /\ LET fr == frame[t]
       IN  IF fr.p_idx >= Len(ps)
           THEN /\ Goto(t, then)
                /\ frame' = [frame EXCEPT ![t].p_idx = 0]
                /\ UNCHANGED <<calls, outcome, lists>>
           ELSE LET p == ps[fr.p_idx + 1]
                IN  \E out \in PermissionOutcomes(p) :
                      /\ Log(t, Call(kind, p, <<fr.caller>> \o fr.args, fr.kwargs, out))
                      /\ IF Denied(out)
                         THEN Leave(t, out)
                         ELSE /\ frame' = [frame EXCEPT ![t].p_idx = @ + 1]
                              /\ UNCHANGED <<pc, outcome, lists>>
    /\ UNCHANGED <<descriptor, scopes>>

\* step 3: each resolved permission, in order
RunPermission(t) ==
    CheckAt(t, "permission", "permission", frame[t].permits, "check")

\* step 4: each mandatory permission check, in order; then the validators
RunCheck(t) ==
    CheckAt(t, "check", "check", guard[frame[t].action].checks, "iter")

(* ------------------------- the binding layer -------------------------- *)

\* the objects an action is read from: service.my_action for an instance,
\* Service.my_action for the class, where __get__ receives obj = None
Instances == {"s1", "s2", "s3"}
Owners == Instances \cup {None}

\* ServiceAction.__get__: return _WrappedMethod(action=self, caller=obj)
GetUnbound(a, obj) == [action |-> a, caller |-> None]
Get(a, obj) == [action |-> a, caller |-> obj]

\* the attribute access obj.my_action; its value is the thread's to use in
\* the same expression
Access(t, a, obj) ==
    /\ Idle(t)
    /\ Finish(t, "get", a, obj, Return(Get(a, obj)))
    /\ UNCHANGED <<descriptor, lists, scopes>>

\* the thread has just read an action from an object
Holds(t) == Idle(t) /\ outcome[t].op = "get"

\* the _WrappedMethod the thread has just obtained
Wrapper(t) == outcome[t].value

\* the arguments of the calls of a wrapper
CallArguments == {[args |-> <<"x">>, kwargs |-> {<<"data", "d">>}],
                  [args |-> <<>>, kwargs |-> {}]}

\* _WrappedMethod.__call__: self.action.run(self.caller, *args, **kwargs)
WrappedCall(t, args, kwargs) ==
    /\ Holds(t)
    /\ RunBegin(t, Wrapper(t).action, Invocation(Wrapper(t).caller, args, kwargs))

\* Python binds the arguments of run(self, caller, *args, **kwargs) before
\* its body: in self.run(caller=caller, *args, **kwargs) the first positional
\* argument takes the parameter caller, which the keyword gives as well
MultipleValues == Raise("TypeError", "run() got multiple values for argument 'caller'")

\* ServiceAction.__call__(caller, *args, **kwargs):
\*     return self.run(caller=caller, *args, **kwargs)
DescriptorCall(t, a, inv) ==
    IF inv.args # <<>>
    THEN /\ Idle(t)
         /\ calls' = [calls EXCEPT ![t] = <<>>]
         /\ outcome' = [outcome EXCEPT ![t] = Done("run", a, inv, MultipleValues)]
         /\ UNCHANGED <<pc, frame, descriptor, lists, scopes>>
    ELSE RunBegin(t, a, inv)

\* the invocation goes on
Continue(t) ==
    \/ RunTest(t)
    \/ RunContext(t)
    \/ RunIter(t)
    \/ RunValidator(t)
    \/ RunMethod(t)

(* ---------------------------- specifications -------------------------- *)

\* the definition-time API, called by thread t on action a
Define(t, a) ==
    \/ \E func \in Methods : Register(t, a, func)
    \/ \E func \in Validators : Validate(t, a, func)
    \/ \E func \in Factories : ValidatorContext(t, a, func)

\* thread t enters an override scope of action a
EnterScope(t, a) ==
    \/ \E content \in UsingLists : UsingFresh(t, a, content)
    \/ UsingListOf(t, a, a)
    \/ \E names \in NameLists : Only(t, a, names)
    \/ \E names \in NameLists : Excluding(t, a, names)

\* thread t enters an override scope of action a when it is in none, or
\* leaves the one it is in
Override(t, a) ==
    \/ (scopes[t] = <<>> /\ EnterScope(t, a))
    \/ \E how \in Exits : ExitScope(t, how)

\* thread t invokes action a, or goes on with its invocation
Invoke(t, a, invs) ==
    \/ \E inv \in invs : RunBegin(t, a, inv)
    \/ RunTest(t)
    \/ RunContext(t)
    \/ RunIter(t)
    \/ RunValidator(t)
    \/ RunMethod(t)

\* a class body and the calls of its action: one thread defines action A1
\* and invokes it
Next == Define("t1", "A1") \/ Invoke("t1", "A1", Invocations)

Spec == Init /\ [][Next]_vars

\* a test: one thread overrides the validators of A1 in scopes, invokes the
\* action and registers validators, inside the scopes and outside
NextScopes ==
    \/ (Len(CurrentList("A1")) < MaxScopeLen /\ Validate("t1", "A1", "va"))
    \/ Override("t1", "A1")
    \/ Invoke("t1", "A1", {Invocation("s1", <<"x">>, {})})

\* the action of the test has a context factory, and a method or none
InitScopes == \E m \in {"m1", None}, opt \in OptionLists : Construct(m, "f1", opt)

SpecScopes == InitScopes /\ [][NextScopes]_vars

\* an action defined with three validators, two of them of the same name
NamesakeLists == {<<>>, <<"va", "vb", Namesake>>}

InitOverride == \E opt \in NamesakeLists : Construct("m1", "f1", opt)

\* a test: one thread opens one override scope at a time on A1 and invokes
\* the action inside the scope and outside
NextOverride ==
    \/ Override("t1", "A1")
    \/ Invoke("t1", "A1", {Invocation("s1", <<"x">>, {})})

SpecOverride == InitOverride /\ [][NextOverride]_vars

\* a test: one thread nests override scopes of A1
NextNested ==
    \/ (Len(scopes["t1"]) < MaxNest /\ EnterScope("t1", "A1"))
    \/ \E how \in Exits : ExitScope("t1", how)

SpecNested == InitOverride /\ [][NextNested]_vars

\* an action with two validators, a method and no context factory
InitThreads == Construct("m1", None, <<"va", "vb">>)

\* two threads share the class: t1 overrides the validators of A1 through
\* the instance s1, one scope at a time, while t2 invokes A1 through other
\* instances, through the class, and through s1
NextShared ==
    \/ (scopes["t1"] = <<>> /\ EnterScope("t1", "A1"))
    \/ \E how \in Exits : ExitScope("t1", how)
    \/ Invoke("t2", "A1", {Invocation(c, <<>>, {}) : c \in Callers})

SpecShared == InitThreads /\ [][NextShared]_vars

\* two threads each open one override scope at a time on A1: a using() with
\* a list of its own, or an only()
NextRace ==
    \E t \in Threads :
        \/ /\ scopes[t] = <<>>
           /\ \/ \E content \in UsingLists : UsingFresh(t, "A1", content)
              \/ Only(t, "A1", {"a"})
        \/ \E how \in Exits : ExitScope(t, how)

SpecRace == InitThreads /\ [][NextRace]_vars

InitBinding == \E opt \in OptionLists : Construct("m1", "f1", opt)

\* a program that reads its actions from instances and from the class, and
\* calls what it reads, or opens an override scope with it
NextBinding ==
    \/ \E a \in Actions, obj \in Owners : Access("t1", a, obj)
    \/ \E c \in CallArguments : WrappedCall("t1", c.args, c.kwargs)
    \/ Continue("t1")
    \/ (Holds("t1") /\ scopes["t1"] = <<>>
           /\ \E names \in NameLists : Only("t1", Wrapper("t1").action, names))
    \/ \E how \in Exits : ExitScope("t1", how)

SpecBinding == InitBinding /\ [][NextBinding]_vars

\* a program that registers validators on A1 and invokes it through run and
\* by calling the descriptor object, with the same callers and arguments
NextCall ==
    \/ (Len(CurrentList("A1")) < MaxScopeLen /\ Validate("t1", "A1", "va"))
    \/ \E inv \in Invocations : DescriptorCall("t1", "A1", inv)
    \/ Invoke("t1", "A1", Invocations)

SpecCall == InitScopes /\ [][NextCall]_vars

\* an action with two validators, a method and a context factory
InitInterleaved == Construct("m1", "f1", <<"va", "vb">>)

\* two threads share the action: t1 overrides the validators of A1 with
\* using(), one scope at a time, while t2 invokes A1
NextInterleaved ==
    \/ (scopes["t1"] = <<>>
           /\ \E content \in UsingLists : UsingFresh("t1", "A1", content))
    \/ \E how \in Exits : ExitScope("t1", how)
    \/ Invoke("t2", "A1", {Invocation("s1", <<>>, {})})

SpecInterleaved == InitInterleaved /\ [][NextInterleaved]_vars

\* a program that registers validators on its two actions, constructed from
\* the same validators option, and overrides the validators of one with
\* using(): with a list of its own or with the list of the other action
NextPrivate ==
    \E a \in Actions :
        \/ Validate("t1", a, "va")
        \/ /\ scopes["t1"] = <<>>
           /\ \/ \E content \in UsingLists : UsingFresh("t1", a, content)
              \/ \E b \in Actions \ {a} : UsingListOf("t1", a, b)
        \/ \E how \in Exits : ExitScope("t1", how)

SpecPrivate == InitBinding /\ [][NextPrivate]_vars

\* the actions of a service class with permissions
Guards == {Guard(r, ks, use) : r \in Resolvers \cup {None}, ks \in CheckLists,
                               use \in BOOLEAN}

InitPermissions ==
    \E opt \in OptionLists, g \in Guards : Build("m1", "f1", opt, g)

\* the invocations of an action with permissions, by services with default
\* permissions and by a caller without
NextPermissions ==
    \/ \E c \in {"s1", "s2", "s3"} :
          GuardedBegin("t1", "A1", Invocation(c, <<"x">>, {}))
    \/ GuardedTest("t1")
    \/ GuardedContext("t1")
    \/ RunResolve("t1")
    \/ RunPermission("t1")
    \/ RunCheck("t1")
    \/ RunIter("t1")
    \/ RunValidator("t1")
    \/ RunMethod("t1")

SpecPermissions == InitPermissions /\ [][NextPermissions]_vars

(* ------------------------- reading the state -------------------------- *)

\* the calls of one kind among the calls of the thread's last operation
CallsOf(t, kind) == SelectSeq(calls[t], LAMBDA c : c.kind = kind)

FnsOf(cs) == [i \in 1..Len(cs) |-> cs[i].fn]

AllReturned(cs) == \A i \in 1..Len(cs) : cs[i].out.status = "return"

\* the thread's last operation is an invocation, running or over
RunOf(t) == outcome[t].op = "run"

\* the thread's last operation is an invocation that is over
Completed(t) == RunOf(t) /\ pc[t] = "idle"

\* the step is the thread's call of the operation op
CallOf(t, op) == pc[t] = "idle" /\ pc'[t] = "idle" /\ outcome'[t].op = op

\* the action's current list after the step
ListAfter(a) == lists'[validators'[a]]

\* the arguments as the invocation gave them
Given(t) == <<outcome[t].input.caller>> \o outcome[t].input.args

(* ------------------------------- claims ------------------------------- *)

\* C1: fail-fast validation.  Whenever a validator vk of an invocation has
\* raised, the validators called in the invocation are exactly the first k
\* of the action's current list, in order and once each, all before vk
\* returned, the invocation is over with vk's error as its error, and the
\* method was not called.
C1_FailFast ==
    \A t \in Threads : RunOf(t) =>
        LET vs == CallsOf(t, "validator")
            l == CurrentList(outcome[t].action)
        IN  \A k \in 1..Len(vs) : vs[k].out.status = "raise" =>
                /\ k = Len(vs)
                /\ k <= Len(l)
                /\ FnsOf(vs) = SubSeq(l, 1, k)
                /\ AllReturned(SubSeq(vs, 1, k - 1))
                /\ CallsOf(t, "method") = <<>>
                /\ Completed(t)
                /\ outcome[t].status = "raise"
                /\ outcome[t].value = vs[k].out.value

\* C1 witness: an invocation over whose second validator raised
C1_Witness ==
    /\ Completed("t1")
    /\ Len(CallsOf("t1", "validator")) = 2
    /\ CallsOf("t1", "validator")[2].out.status = "raise"
    /\ Len(CurrentList("A1")) = 3

\* the validators of a running or finished invocation were called in the
\* order of the current list, once each, and the method after all of them
RunInOrder(t) ==
    LET vs == CallsOf(t, "validator")
        ms == CallsOf(t, "method")
        l == CurrentList(outcome[t].action)
    IN  /\ Len(vs) <= Len(l)
        /\ FnsOf(vs) = SubSeq(l, 1, Len(vs))
        /\ Len(ms) <= 1
        /\ (ms # <<>> \/ (Completed(t) /\ outcome[t].status = "return")) =>
              /\ FnsOf(vs) = l
              /\ AllReturned(vs)
              /\ Len(ms) = 1
              /\ calls[t][Len(calls[t])].kind = "method"

\* C2: validators run in registration order, before the method.  validate()
\* appends its function at the end of the current list (the options list of
\* the construction comes first) and returns the function; an invocation
\* calls the validators in list order, once each, and calls the method only
\* when each of them has been called and has returned.
C2_RegistrationOrder ==
    [][\A t \in Threads :
        /\ CallOf(t, "validate") =>
              LET a == outcome'[t].action
                  func == outcome'[t].input
              IN  /\ ListAfter(a) = Append(CurrentList(a), func)
                  /\ validators' = validators
                  /\ outcome'[t].status = "return"
                  /\ outcome'[t].value = func
        /\ RunOf(t)' => RunInOrder(t)']_vars

\* C2 witness: the options list [va, vb], then validate(va), then an
\* invocation that called va, vb, va and the method
C2_Witness ==
    /\ Completed("t1")
    /\ outcome["t1"].status = "return"
    /\ FnsOf(CallsOf("t1", "validator")) = <<"va", "vb", "va">>
    /\ Len(CallsOf("t1", "method")) = 1

\* C3: override scopes always restore.  Whenever a thread leaves a scope,
\* however the body ended, the current list of the scope's action is
\* afterwards the list that was current when the scope was entered.
C3_ScopeRestores ==
    [][\A t \in Threads :
        Len(scopes'[t]) < Len(scopes[t]) =>
            LET s == scopes[t][Len(scopes[t])]
            IN  ListAfter(s.action) = s.entry]_vars

\* the context the factory returned in this invocation, if it returned
FactoryReturns(t) ==
    {c.out.value : c \in {d \in {calls[t][i] : i \in 1..Len(calls[t])} :
                             d.kind = "factory" /\ d.out.status = "return"}}

\* C4: a validator is passed a context exactly when the action has a context
\* factory.  With a factory, every validator call carries the value the
\* factory returned in this invocation, after the caller (if it is passed)
\* and before the call arguments; without one, it carries the caller (if it
\* is passed) and the call arguments only.
C4_ContextIffFactory ==
    \A t \in Threads : RunOf(t) =>
        LET vs == CallsOf(t, "validator")
            in == outcome[t].input
            f == validator_context_factory[outcome[t].action]
        IN  \A k \in 1..Len(vs) :
                /\ vs[k].kw = in.kwargs
                /\ IF f # None
                   THEN \E c \in FactoryReturns(t) :
                           vs[k].pos \in {<<c>> \o in.args, <<in.caller, c>> \o in.args}
                   ELSE vs[k].pos \in {in.args, <<in.caller>> \o in.args}

\* the factory was called once, first of all, with the caller and arguments
FactoryCalledOnce(t) ==
    /\ Len(CallsOf(t, "factory")) = 1
    /\ calls[t][1].kind = "factory"
    /\ calls[t][1].fn = validator_context_factory[outcome[t].action]
    /\ calls[t][1].pos = Given(t)
    /\ calls[t][1].kw = outcome[t].input.kwargs

\* every context a validator was passed is the one this invocation's
\* factory call returned
ContextIsFresh(t) ==
    LET vs == CallsOf(t, "validator")
    IN  \A k \in 1..Len(vs) : \A i \in 1..Len(vs[k].pos) :
            vs[k].pos[i] \in ContextValues => vs[k].pos[i] \in FactoryReturns(t)

\* what C5 says of the finished invocation of t
LazyContext(t) ==
    /\ IF CurrentList(outcome[t].action) # <<>>
       THEN FactoryCalledOnce(t)
       ELSE CallsOf(t, "factory") = <<>>
    /\ ContextIsFresh(t)

\* C5 as stated: in every invocation of an action with a context factory,
\* the factory is called exactly once, first, with the caller and the
\* arguments, if the current list is non-empty, and not at all if it is
\* empty; validators get no context but the one it returned.
C5_LazyContext ==
    \A t \in Threads :
        (Completed(t) /\ validator_context_factory[outcome[t].action] # None)
            => LazyContext(t)

\* C5 amended: the same, for the invocations of an action that has a
\* registered method.
C5_LazyContextWithMethod ==
    \A t \in Threads :
        (/\ Completed(t)
         /\ validator_context_factory[outcome[t].action] # None
         /\ registered_method[outcome[t].action] # None)
            => LazyContext(t)

\* C5 witness: inside a scope that emptied a non-empty list, an invocation
\* returned without a call of the factory
C5_Witness ==
    /\ Completed("t1")
    /\ outcome["t1"].status = "return"
    /\ scopes["t1"] # <<>>
    /\ scopes["t1"][1].entry # <<>>
    /\ CurrentList("A1") = <<>>
    /\ CallsOf("t1", "factory") = <<>>
    /\ Len(CallsOf("t1", "method")) = 1

\* C6: the caller-binding rule.  In every validator call the caller is the
\* leading argument exactly when the validator has no bound receiver or its
\* receiver is another object than the caller.
C6_CallerBinding ==
    \A t \in Threads : RunOf(t) =>
        LET vs == CallsOf(t, "validator")
            caller == outcome[t].input.caller
        IN  \A k \in 1..Len(vs) :
                (vs[k].pos # <<>> /\ vs[k].pos[1] = caller)
                    <=> (~HasReceiver(vs[k].fn) \/ SelfOf(vs[k].fn) # caller)

\* C7: when every validator of the current list has passed, or the list is
\* empty, the registered method is called exactly once, with the caller and
\* the call arguments as the invocation gave them, and the invocation ends
\* as that call ended: it returns the method's result.
C7_MethodCalledAsGiven ==
    \A t \in Threads :
        LET vs == CallsOf(t, "validator")
            ms == CallsOf(t, "method")
            a == outcome[t].action
        IN  (/\ Completed(t)
             /\ registered_method[a] # None
             /\ FnsOf(vs) = CurrentList(a)
             /\ AllReturned(vs)) =>
                /\ Len(ms) = 1
                /\ ms[1].fn = registered_method[a]
                /\ ms[1].pos = Given(t)
                /\ ms[1].kw = outcome[t].input.kwargs
                /\ outcome[t].status = ms[1].out.status
                /\ outcome[t].value = ms[1].out.value

\* C7 witness: an invocation with arguments whose validator was passed a
\* context and returned a value, and that returned the method's result
C7_Witness ==
    /\ Completed("t1")
    /\ outcome["t1"].status = "return"
    /\ outcome["t1"].value = "r1"
    /\ outcome["t1"].input.args # <<>>
    /\ \E i \in 1..Len(calls["t1"]) :
          /\ calls["t1"][i].kind = "validator"
          /\ calls["t1"][i].out.value = "vret"
          /\ "ctx1" \in {calls["t1"][i].pos[j] : j \in 1..Len(calls["t1"][i].pos)}

\* C8: the method is set at most once.  register() on an action without a
\* method sets it; on an action with a method it raises 'Method already set
\* for action' and changes neither the method nor the validator list nor the
\* context factory; a method once set is never replaced.
C8_RegisterOnce ==
    [][/\ \A t \in Threads : CallOf(t, "register") =>
              LET a == outcome'[t].action
                  func == outcome'[t].input
              IN  IF registered_method[a] = None
                  THEN /\ registered_method'[a] = func
                       /\ outcome'[t].status = "return"
                       /\ outcome'[t].value = func
                  ELSE /\ outcome'[t].status = MethodAlreadySet.status
                       /\ outcome'[t].value = MethodAlreadySet.value
                       /\ UNCHANGED <<descriptor, lists>>
       /\ \A a \in Actions : registered_method[a] # None =>
              registered_method'[a] = registered_method[a]]_vars

\* C8 witness: register(m2) was rejected on an action whose method is m1
C8_Witness ==
    /\ outcome["t1"].op = "register"
    /\ outcome["t1"].input = "m2"
    /\ outcome["t1"].status = "raise"
    /\ registered_method["A1"] = "m1"

\* C9: an invocation of an action without a method fails with 'Method not
\* set for action' and calls neither the context factory nor a validator.
C9_NoMethod ==
    \A t \in Threads :
        (RunOf(t) /\ registered_method[outcome[t].action] = None) =>
            /\ Completed(t)
            /\ outcome[t].status = MethodNotSet.status
            /\ outcome[t].value = MethodNotSet.value
            /\ calls[t] = <<>>

\* C9 witness: such an invocation, of an action with validators and a factory
C9_Witness ==
    /\ Completed("t1")
    /\ registered_method["A1"] = None
    /\ validator_context_factory["A1"] # None
    /\ Len(CurrentList("A1")) >= 2

\* C10: the context factory is set at most once.  validator_context() on an
\* action with a factory raises 'Validator context factory already set for
\* action' and changes nothing of the action; a factory once set, by the
\* construction or by validator_context(), is never replaced, and it is the
\* factory the invocations call.
C10_FactoryOnce ==
    [][/\ \A t \in Threads : CallOf(t, "validator_context") =>
              LET a == outcome'[t].action
                  func == outcome'[t].input
              IN  IF validator_context_factory[a] = None
                  THEN /\ validator_context_factory'[a] = func
                       /\ outcome'[t].status = "return"
                       /\ outcome'[t].value = func
                  ELSE /\ outcome'[t].status = FactoryAlreadySet.status
                       /\ outcome'[t].value = FactoryAlreadySet.value
                       /\ UNCHANGED <<descriptor, lists>>
       /\ \A a \in Actions : validator_context_factory[a] # None =>
              validator_context_factory'[a] = validator_context_factory[a]
       /\ \A t \in Threads : RunOf(t)' =>
              \A i \in 1..Len(calls'[t]) : calls'[t][i].kind = "factory" =>
                  calls'[t][i].fn = validator_context_factory'[outcome'[t].action]]_vars

\* C10 witness: validator_context(f2) was rejected on an action constructed
\* with the factory f1
C10_Witness ==
    /\ outcome["t1"].op = "validator_context"
    /\ outcome["t1"].input = "f2"
    /\ outcome["t1"].status = "raise"
    /\ validator_context_factory["A1"] = "f1"

(* --------------------- reading the override scopes -------------------- *)

\* the innermost open scope of the thread
Top(t) == scopes[t][Len(scopes[t])]

\* the thread is inside a scope of the given kind, opened last
Inside(t, kind) == scopes[t] # <<>> /\ Top(t).kind = kind

\* the positions of l whose validator has one of the names
Positions(l, names) == {i \in 1..Len(l) : NameOf(l[i]) \in names}

\* the subsequence of l at the positions idx, in the order of l
Pick(l, idx) ==
    [k \in 1..Cardinality(idx) |->
        l[CHOOSE i \in idx : Cardinality({j \in idx : j <= i}) = k]]

Named(l, names) == Pick(l, Positions(l, names))

NotNamed(l, names) == Pick(l, (1..Len(l)) \ Positions(l, names))

Range(l) == {l[i] : i \in 1..Len(l)}

\* how many validators of l have the name n
CountOfName(l, n) == Cardinality(Positions(l, {n}))

\* the list the documentation promises inside the scope s
ListOf(s) ==
    CASE s.kind = "using" -> s.arg
      [] s.kind = "only" -> Named(s.entry, s.arg)
      [] s.kind = "excluding" -> NotNamed(s.entry, s.arg)

\* C11: override scopes nest as a stack.  When a thread leaves its innermost
\* scope, the action's list is again the list that was active in the
\* enclosing scope, and the original list when the scope left is the
\* outermost; a scope entered inside another filters or replaces the list
\* that is active at its own entry.
C11_StackDiscipline ==
    [][\A t \in Threads :
         /\ Len(scopes'[t]) < Len(scopes[t]) =>
              LET d == Len(scopes[t])
                  s == scopes[t][d]
              IN  ListAfter(s.action) =
                      IF d = 1 THEN s.entry ELSE ListOf(scopes[t][d - 1])
         /\ Len(scopes'[t]) > Len(scopes[t]) =>
              \E a \in Actions :
                  /\ a = scopes'[t][Len(scopes'[t])].action
                  /\ scopes'[t][Len(scopes'[t])].entry = CurrentList(a)
                  /\ scopes[t] # <<>> => CurrentList(a) = ListOf(Top(t))
                  /\ ListAfter(a) = ListOf(scopes'[t][Len(scopes'[t])])]_vars

\* C11: a thread is inside two scopes, the inner one an only() that filtered
\* the list of the outer excluding()
C11_Nested ==
    /\ Len(scopes["t1"]) = 2
    /\ scopes["t1"][1].kind = "excluding"
    /\ scopes["t1"][1].entry = <<"va", "vb", Namesake>>
    /\ scopes["t1"][1].arg = {"zz"}
    /\ scopes["t1"][2].kind = "only"
    /\ scopes["t1"][2].arg = {"a"}
    /\ CurrentList("A1") = <<"va", Namesake>>

\* C12: inside a using(newValidators) scope the action's list is
\* newValidators, element by element, and an invocation made inside the scope
\* calls exactly those validators in that order, and none of the validators
\* that only the list before the scope had.
C12_UsingInstalls ==
    \A t \in Threads : Inside(t, "using") =>
        LET s == Top(t)
            vs == CallsOf(t, "validator")
        IN  /\ CurrentList(s.action) = s.arg
            /\ (RunOf(t) /\ outcome[t].action = s.action) =>
                  /\ Len(vs) <= Len(s.arg)
                  /\ FnsOf(vs) = SubSeq(s.arg, 1, Len(vs))
                  /\ (CallsOf(t, "method") # <<>> \/ outcome[t].status = "return")
                        => FnsOf(vs) = s.arg
                  /\ Range(FnsOf(vs)) \cap (Range(s.entry) \ Range(s.arg)) = {}

\* C12 witness: inside using([vb]) on an action that has va, vb and vc, an
\* invocation returned after calling vb alone
C12_Witness ==
    /\ Inside("t1", "using")
    /\ Top("t1").entry = <<"va", "vb", Namesake>>
    /\ Top("t1").arg = <<"vb">>
    /\ Completed("t1")
    /\ outcome["t1"].status = "return"
    /\ FnsOf(CallsOf("t1", "validator")) = <<"vb">>

\* C13: inside an only(names) scope the action's list is the subsequence of
\* the list at scope entry made of the validators whose name is in names, in
\* their original order; every validator that has a matched name is kept,
\* and names that match no validator give the empty list.
C13_OnlyKeepsNamed ==
    \A t \in Threads : Inside(t, "only") =>
        LET s == Top(t)
            l == CurrentList(s.action)
        IN  /\ l = Named(s.entry, s.arg)
            /\ \A n \in s.arg : CountOfName(l, n) = CountOfName(s.entry, n)
            /\ \A i \in 1..Len(l) : NameOf(l[i]) \in s.arg
            /\ Positions(s.entry, s.arg) = {} => l = <<>>

\* C13 witness: only(["a"]) on the list va, vb, vc keeps va and its namesake
C13_Witness ==
    /\ Inside("t1", "only")
    /\ Top("t1").entry = <<"va", "vb", Namesake>>
    /\ Top("t1").arg = {"a"}
    /\ CurrentList("A1") = <<"va", Namesake>>

\* C14: inside an excluding(names) scope the action's list is the
\* subsequence of the list at scope entry made of the validators whose name
\* is not in names; the list only(names) makes of the same entry list shares
\* no validator with it, and the two together hold every validator of the
\* entry list.
C14_ExcludingDropsNamed ==
    \A t \in Threads : Inside(t, "excluding") =>
        LET s == Top(t)
            e == CurrentList(s.action)
            o == OnlyFilter(s.entry, s.arg)
        IN  /\ e = NotNamed(s.entry, s.arg)
            /\ \A i \in 1..Len(e) : NameOf(e[i]) \notin s.arg
            /\ Range(o) \cap Range(e) = {}
            /\ Range(o) \cup Range(e) = Range(s.entry)
            /\ Len(o) + Len(e) = Len(s.entry)

\* C14 witness: excluding(["a"]) on the list va, vb, vc leaves vb
C14_Witness ==
    /\ Inside("t1", "excluding")
    /\ Top("t1").entry = <<"va", "vb", Namesake>>
    /\ Top("t1").arg = {"a"}
    /\ CurrentList("A1") = <<"vb">>

\* C15: the validator list belongs to the action, not to an instance.  While
\* a thread is inside an override scope it entered through one instance,
\* every read of the list by an invocation of the same action made by
\* another thread, whatever its caller, yields the list of the scope: the
\* test `if self.validators` sees it, the for loop iterates it, and the
\* validators called are its validators in order.
C15_SharedOverride ==
    [][\A t \in Threads : \A u \in Threads \ {t} :
          (scopes[t] # <<>> /\ scopes'[t] = scopes[t]
             /\ frame[u].action = Top(t).action) =>
              LET l == ListOf(Top(t))
              IN  /\ (pc[u] = "test" /\ pc'[u] # "test") =>
                        (pc'[u] = "method") = (l = <<>>)
                  /\ (pc[u] = "iter" /\ pc'[u] # "iter") =>
                        lists'[frame'[u].it_list] = l
                  /\ (pc[u] = "validate" /\ Len(calls'[u]) > Len(calls[u])) =>
                        /\ lists[frame[u].it_list] = l =>
                              calls'[u][Len(calls'[u])].fn = l[frame[u].it_idx + 1]
                        /\ frame[u].it_idx = Len(calls[u])]_vars

\* C15 witness: while t1 is inside only(["a"]) entered through s1, an
\* invocation through s2 by t2 has tested and iterated the list and has
\* called va alone
C15_Witness ==
    /\ Inside("t1", "only")
    /\ Top("t1").arg = {"a"}
    /\ Top("t1").entry = <<"va", "vb">>
    /\ outcome["t1"].op = "only"
    /\ outcome["t2"].op = "run"
    /\ outcome["t2"].input.caller = "s2"
    /\ pc["t2"] = "method"
    /\ FnsOf(CallsOf("t2", "validator")) = <<"va">>

\* C16: override scopes of two threads that do not overlap, or of which one
\* lies inside the other, leave the original list: when the scope that was
\* entered first is the last to be left, the action's list is again the list
\* of before the scopes.
C16_SerializedRestores ==
    [][\A t \in Threads :
          (/\ Len(scopes'[t]) < Len(scopes[t])
           /\ \A u \in Threads : scopes'[u] = <<>>
           /\ Top(t).order = 1) =>
              ListAfter(Top(t).action) = Top(t).entry]_vars

\* C16: the scopes of t1 and t2 overlapped without nesting (t1 entered, t2
\* entered, t1 left, t2 left), both bodies completed, and the override of
\* t1 is installed with no scope open
C16_Race ==
    /\ \A t \in Threads : scopes[t] = <<>> /\ outcome[t].op = "exit"
                          /\ outcome[t].input.how = "normal"
    /\ outcome["t1"].input.left.order = 1
    /\ outcome["t2"].input.left.order = 2
    /\ outcome["t2"].input.left.entry = ListOf(outcome["t1"].input.left)
    /\ CurrentList("A1") = ListOf(outcome["t1"].input.left)
    /\ CurrentList("A1") # outcome["t1"].input.left.entry

\* C17: reading an action from the class binds nothing: what the read gives
\* is no callable bound to a caller, and no invocation runs with the absent
\* caller None; reading it from an instance gives a wrapper bound to that
\* instance.
C17_ClassAccessUnbound ==
    \A t \in Threads :
        /\ (outcome[t].op = "get" /\ outcome[t].input = None) =>
              outcome[t].value \notin [action : Actions, caller : Owners]
        /\ (outcome[t].op = "get" /\ outcome[t].input \in Instances) =>
              outcome[t].value = [action |-> outcome[t].action,
                                  caller |-> outcome[t].input]
        /\ RunOf(t) => outcome[t].input.caller # None

\* C17: an invocation made through the class has called the method with
\* None as its caller
C17_ClassCallRan ==
    /\ Completed("t1")
    /\ outcome["t1"].input.caller = None
    /\ CallsOf("t1", "method") # <<>>
    /\ CallsOf("t1", "method")[1].pos[1] = None

\* C18: calling what an instance's attribute gives is running the action's
\* run with that instance as caller and the arguments of the call; an
\* override made through the attribute of one instance changes the list of
\* the one action, which the invocations through every instance read.
C18_WrapperForwards ==
    [][/\ \A t \in Threads :
          (Holds(t) /\ outcome[t].input \in Instances) =>
              /\ outcome'[t].op = "run" =>
                    \E c \in CallArguments :
                        /\ outcome'[t].input =
                              Invocation(outcome[t].input, c.args, c.kwargs)
                        /\ outcome'[t].action = outcome[t].action
                        /\ RunBegin(t, outcome[t].action,
                                    Invocation(outcome[t].input, c.args, c.kwargs))
              /\ outcome'[t].op = "only" =>
                    /\ outcome'[t].action = outcome[t].action
                    /\ ListAfter(outcome[t].action) = ListOf(scopes'[t][1])
       /\ \A t \in Threads :
            (Inside(t, "only") /\ RunOf(t) /\ outcome[t].action = Top(t).action)' =>
                LET l == ListOf(Top(t))'
                    vs == FnsOf(CallsOf(t, "validator"))'
                IN  /\ Len(vs) <= Len(l)
                    /\ vs = SubSeq(l, 1, Len(vs))]_vars

\* C18 witness: inside an only() entered through an instance, s2.my_action
\* was called with arguments and returned, the method having received s2,
\* after the validators of the scope's list
C18_Witness ==
    /\ Inside("t1", "only")
    /\ Top("t1").arg = {"a"}
    /\ Completed("t1")
    /\ outcome["t1"].status = "return"
    /\ outcome["t1"].input = Invocation("s2", <<"x">>, {<<"data", "d">>})
    /\ FnsOf(CallsOf("t1", "validator")) = <<"va">>
    /\ CallsOf("t1", "method")[1].pos = <<"s2", "x">>

(* ----------------------- reading the permissions ---------------------- *)

\* the calls of permissions and of mandatory checks among the calls cs
GuardCalls(cs) == SelectSeq(cs, LAMBDA c : c.kind \in {"permission", "check"})

\* the permissions resolved for the running invocation, then the mandatory
\* checks of its action
ToCheck(t) == frame[t].permits \o guard[frame[t].action].checks

\* C19: permissions come before validation and fail fast.  Each permission
\* call of an invocation is the next of the resolved permissions followed by
\* the mandatory checks, all the earlier ones having been called once and
\* having passed, and no validator nor the method having been called; when
\* it fails the invocation is over with its error, so that the later checks,
\* the validators and the method are not called; the validators are reached
\* only after every permission and check has passed.
C19_PermissionsFirst ==
    [][\A t \in Threads :
         LET gs == GuardCalls(calls[t])
             n == ToCheck(t)
         IN  /\ (pc[t] \in {"permission", "check"} /\ calls'[t] # calls[t]) =>
                   LET c == calls'[t][Len(calls'[t])]
                       k == Len(gs) + 1
                   IN  /\ calls'[t] = Append(calls[t], c)
                       /\ c.kind \in {"permission", "check"}
                       /\ k <= Len(n)
                       /\ c.fn = n[k]
                       /\ c.pos = <<frame[t].caller>> \o frame[t].args
                       /\ FnsOf(gs) = SubSeq(n, 1, k - 1)
                       /\ AllReturned(gs)
                       /\ CallsOf(t, "validator")' = <<>>
                       /\ CallsOf(t, "method")' = <<>>
                       /\ c.out.status = "raise" =>
                             /\ pc'[t] = "idle"
                             /\ outcome'[t].status = "raise"
                             /\ outcome'[t].value = c.out.value
             /\ pc[t] \in {"iter", "validate", "method"} =>
                   /\ FnsOf(gs) = n
                   /\ AllReturned(gs)
                   /\ GuardCalls(calls'[t]) = gs
             /\ \A i \in 1..Len(calls'[t]) :
                   (/\ calls'[t][i].kind \in {"permission", "check"}
                    /\ calls'[t][i].out.status = "raise") =>
                       i = Len(calls'[t]) /\ pc'[t] = "idle"]_vars

\* C19 witness: the second of three permissions and checks failed after the
\* first passed, on an action that has validators
C19_Witness ==
    /\ Completed("t1")
    /\ FnsOf(GuardCalls(calls["t1"])) = <<"pb", "k1">>
    /\ GuardCalls(calls["t1"])[1].out.status = "return"
    /\ outcome["t1"].status = "raise"
    /\ outcome["t1"].value = <<"PermissionError", "k1">>
    /\ guard["A1"].checks = <<"k1", "k2">>
    /\ CurrentList("A1") # <<>>
    /\ CallsOf("t1", "validator") = <<>>

\* C20: the permissions of an invocation are those the action's resolver
\* returns when the action has one; without a resolver they are the caller's
\* default permissions when the action uses them and the caller has some;
\* otherwise there are none, and then the invocation goes on to the
\* mandatory checks, the validators and the method.
C20_Precedence ==
    [][\A t \in Threads :
         LET a == frame[t].action
             caller == frame[t].caller
         IN  /\ (pc[t] = "resolve" /\ pc'[t] # "resolve") =>
                   IF guard[a].resolver # None
                   THEN LET c == calls'[t][Len(calls'[t])]
                        IN  /\ calls'[t] = Append(calls[t], c)
                            /\ c.kind = "resolver"
                            /\ c.fn = guard[a].resolver
                            /\ c.pos = <<caller>> \o frame[t].args
                            /\ c.out.status = "return"
                            /\ frame'[t].permits = c.out.value
                   ELSE /\ calls'[t] = calls[t]
                        /\ frame'[t].permits =
                              IF /\ guard[a].use_service_permissions
                                 /\ caller \in {"s1", "s2"}
                              THEN DefaultPermissions(caller)
                              ELSE <<>>
             /\ (pc[t] = "permission" /\ frame[t].permits = <<>>) =>
                   /\ pc'[t] = "check"
                   /\ calls'[t] = calls[t]
                   /\ outcome'[t] = outcome[t]
             /\ (pc[t] = "check" /\ GuardCalls(calls[t]) = <<>>
                   /\ guard[a].checks = <<>>) =>
                   /\ pc'[t] = "iter"
                   /\ calls'[t] = calls[t]
             /\ (RunOf(t) /\ GuardCalls(calls[t]) = <<>>)' => RunInOrder(t)']_vars

\* C20 witness: an action with a resolver that uses the service permissions,
\* invoked by a service that has default permissions, has run the
\* resolver's permissions and has returned
C20_Witness ==
    /\ Completed("t1")
    /\ outcome["t1"].status = "return"
    /\ outcome["t1"].input.caller = "s1"
    /\ guard["A1"].resolver = "rs"
    /\ guard["A1"].use_service_permissions
    /\ FnsOf(CallsOf("t1", "permission")) = <<"pc", "pa">>
    /\ CallsOf("t1", "method") # <<>>

\* the step is a step of an invocation of the thread: it enters run, goes
\* on with it, or leaves it
RunStep(t) == pc[t] # "idle" \/ pc'[t] # "idle" \/ outcome'[t].op = "run"

\* C21: an invocation modifies nothing of the action.  No step of an
\* invocation, whether it goes on, returns or fails, changes the registered
\* method, the context factory, the permission fields or the validator list
\* of any action, in content or order; a step that changes the validator
\* list of an action is a validate() or the entry or exit of an override
\* scope.
C21_InvocationFrame ==
    [][/\ \A t \in Threads : RunStep(t) =>
              /\ UNCHANGED descriptor
              /\ \A a \in Actions : ListAfter(a) = CurrentList(a)
       /\ \A a \in Actions :
              (ListAfter(a) # CurrentList(a) \/ validators'[a] # validators[a]) =>
                  \E t \in Threads :
                      /\ pc[t] = "idle" /\ pc'[t] = "idle"
                      /\ outcome'[t].op \in
                            {"validate", "using", "only", "excluding", "exit"}]_vars

\* C21 witness: an invocation inside an only() scope has failed in the
\* method after its validator, and the action's list is the scope's list
C21_Witness ==
    /\ Completed("t1")
    /\ outcome["t1"].status = "raise"
    /\ outcome["t1"].value = <<"DomainError", "m1">>
    /\ Inside("t1", "only")
    /\ CurrentList("A1") = <<"va">>
    /\ FnsOf(CallsOf("t1", "validator")) = <<"va">>

\* C22: run catches no error and translates none.  When the context factory
\* of an invocation has raised, the invocation is over with the factory's
\* error as its error and has called no validator and not the method; when
\* the method has raised, the invocation is over with the method's error as
\* its error, and every validator of the action's list was called before and
\* returned.
C22_ErrorsPropagate ==
    \A t \in Threads : RunOf(t) =>
        LET fs == CallsOf(t, "factory")
            vs == CallsOf(t, "validator")
            ms == CallsOf(t, "method")
            l == CurrentList(outcome[t].action)
        IN  /\ \A i \in 1..Len(fs) : fs[i].out.status = "raise" =>
                  /\ Completed(t)
                  /\ outcome[t].status = "raise"
                  /\ outcome[t].value = fs[i].out.value
                  /\ calls[t] = <<fs[i]>>
                  /\ vs = <<>> /\ ms = <<>>
            /\ \A i \in 1..Len(ms) : ms[i].out.status = "raise" =>
                  /\ Completed(t)
                  /\ outcome[t].status = "raise"
                  /\ outcome[t].value = ms[i].out.value
                  /\ calls[t][Len(calls[t])] = ms[i]
                  /\ FnsOf(vs) = l
                  /\ AllReturned(vs)
            /\ (Completed(t) /\ outcome[t].status = "raise"
                  /\ outcome[t].value # MethodNotSet.value) =>
                  /\ calls[t] # <<>>
                  /\ calls[t][Len(calls[t])].out.status = "raise"
                  /\ calls[t][Len(calls[t])].out.value = outcome[t].value

\* C22 witness: the method raised after the three validators of the list
\* had returned
C22_Witness ==
    /\ Completed("t1")
    /\ outcome["t1"].status = "raise"
    /\ outcome["t1"].value = <<"DomainError", "m1">>
    /\ Len(CallsOf("t1", "validator")) = 3
    /\ Len(CurrentList("A1")) = 3
    /\ CallsOf("t1", "factory") # <<>>

\* C23: calling the descriptor object is equivalent to run.  For every
\* caller and every combination of positional and keyword arguments, a call
\* of the descriptor object is a step run takes with the same caller and
\* arguments: it starts the same invocation, or ends with the same error.
C23_CallIsRun ==
    [][\A t \in Threads, a \in Actions, inv \in Invocations :
           DescriptorCall(t, a, inv) => RunBegin(t, a, inv)]_vars

\* C23, the case: the descriptor object of an action with a method was
\* called with a positional argument, and the call ended with a TypeError
\* before any validator or the method was called
C23_MultipleValues ==
    /\ Completed("t1")
    /\ registered_method["A1"] = "m1"
    /\ outcome["t1"].input = Invocation("s1", <<"x">>, {<<"data", "d">>})
    /\ outcome["t1"].status = "raise"
    /\ outcome["t1"].value = MultipleValues.value
    /\ calls["t1"] = <<>>

\* the lists that are the current list of A1 at some instant of the test of
\* two threads: the list of the definition and the lists given to using()
ListsInstalled == {<<"va", "vb">>} \cup UsingLists

\* C24: each invocation validates against one list.  While another thread
\* enters and leaves override scopes on the action, an invocation that
\* reached the method has run exactly the validators, in order, of one list
\* that was the action's current list, and it has called the context
\* factory only if that list is non-empty.
C24_OneList ==
    (Completed("t2") /\ CallsOf("t2", "method") # <<>>) =>
        LET run == FnsOf(CallsOf("t2", "validator"))
        IN  /\ run \in ListsInstalled
            /\ CallsOf("t2", "factory") # <<>> => run # <<>>

\* C24, the case: the invocation found the list non-empty and called the
\* factory, the other thread entered using([]), and the loop read the
\* empty list: no validator ran and the method was called
C24_TornRead ==
    /\ Completed("t2")
    /\ Inside("t1", "using")
    /\ CurrentList("A1") = <<>>
    /\ Len(CallsOf("t2", "factory")) = 1
    /\ CallsOf("t2", "validator") = <<>>
    /\ Len(CallsOf("t2", "method")) = 1

\* the operations that register validators on an action or override them
ListOperations == {"validate", "using", "only", "excluding", "exit"}

\* C25: validator lists are private to their action.  A validate() on an
\* action, and the entry or exit of an override scope on it, leaves the list
\* of every other action as it was, also when the actions were constructed
\* from the same list; and a validate() inside a using() scope leaves the
\* list object given to using() with the content it was given with.
C25_ListsPrivate ==
    [][\A t \in Threads, op \in ListOperations : CallOf(t, op) =>
           /\ \A b \in Actions \ {outcome'[t].action} :
                  ListAfter(b) = CurrentList(b)
           /\ (op = "validate" /\ Inside(t, "using")) =>
                  lists'[validators[Top(t).action]] = Top(t).arg]_vars

\* C25, the case: both actions were constructed from the list [va, vb], a
\* validator was registered on A1 only, and the list of A2 has it too
C25_SharedOption ==
    /\ outcome["t1"].op = "validate"
    /\ outcome["t1"].action = "A1"
    /\ scopes["t1"] = <<>>
    /\ CurrentList("A1") = <<"va", "vb", "va">>
    /\ CurrentList("A2") = <<"va", "vb", "va">>

====
